---------------------------- MODULE Spec2Model ----------------------------
(***************************************************************************)
(* A model of inference.py: the batch-inference front end of Tacotron 2.   *)
(*                                                                         *)
(* main() reads the request texts, encodes them, packs them into one       *)
(* length-sorted zero-padded batch (pad_sequences), calls model.infer once *)
(* inside a MeasureTime block, trims every output row to the length the    *)
(* engine reports for it and puts the rows back into request order.        *)
(*                                                                         *)
(* Python indexes from 0, TLA+ sequences from 1: original index k of the   *)
(* source is k+1 here, sorted position p is p+1.  A mel row is modelled as *)
(* the sequence of its frames along the time axis (the axis line 188 cuts  *)
(* and line 190 concatenates along); a frame is one value.                 *)
(***************************************************************************)
EXTENDS Integers, Sequences, FiniteSets

VARIABLES
    pc,                     \* position of main(): the block it executes next
    include_warmup,         \* args.include_warmup
    cuda,                   \* torch.cuda is usable on this host
    sequences,              \* the encoded request set, in request order
    texts,                  \* the padded batch returned by pad_sequences
    text_lengths,           \* the sorted length vector
    ids_sorted_decreasing,  \* the sort permutation: sorted position -> original index
    now,                    \* time.perf_counter()
    t0,                     \* MeasureTime.t0
    measurements,           \* the measurements dict of main()
    exc,                    \* the exception in flight inside the with block
    mels,                   \* rows returned by model.infer
    mel_lengths,            \* valid length per row, as reported by model.infer
    infer_calls,            \* number of calls of model.infer so far
    err,                    \* the exception main() ended with
    failed_at,              \* source line that raised it (0: none)
    ordered,                \* the list mels of line 189: outputs in request order
    eval_mel                \* the array saved to eval_mel.npy

vars == <<pc, include_warmup, cuda, sequences, texts, text_lengths,
          ids_sorted_decreasing, now, t0, measurements, exc, mels,
          mel_lengths, infer_calls, err, failed_at, ordered, eval_mel>>

\* Bounds of the model.
MaxN == 3
MaxLen == 2
MaxW == 2
MaxTick == 2

Min(a, b) == IF a < b THEN a ELSE b

Key == "tacotron2_time"

-----------------------------------------------------------------------------
(* Inputs *)

\* The encoding of request k when it has len tokens.  Tokens are non-zero
\* and differ between any two positions of the request set, so that a
\* token found anywhere identifies the request and position it came from.
Encode(k, len) == [j \in 1..len |-> (k - 1) * MaxLen + j]

\* sentences[1::2] encoded: up to MaxN requests of 0..MaxLen tokens each.
RequestSets ==
    UNION { { [k \in 1..n |-> Encode(k, l[k])] : l \in [1..n -> 0..MaxLen] }
            : n \in 0..MaxN }

-----------------------------------------------------------------------------
(* pad_sequences *)

Lens(seqs) == [i \in 1..Len(seqs) |-> Len(seqs[i])]

Permutations(n) ==
    { p \in [1..n -> 1..n] : \A i, j \in 1..n : p[i] = p[j] => i = j }

\* A plausible slip: sorting ascending.
torch_sort_ascending(lens) ==
    { p \in Permutations(Len(lens)) :
        \A i, j \in 1..Len(lens) : i < j => lens[p[i]] <= lens[p[j]] }

\* torch.sort(lens, dim=0, descending=True): the index tensors it may
\* return.  stable is left at its default, False, so the order of equal
\* elements is whatever the build's sorting routine produces.
torch_sort(lens) ==
    { p \in Permutations(Len(lens)) :
        \A i, j \in 1..Len(lens) : i < j => lens[p[i]] >= lens[p[j]] }

\* A plausible slip: padding on the left.
np_pad_left(text, width) ==
    [j \in 1..width |-> IF j <= width - Len(text) THEN 0
                        ELSE text[j - (width - Len(text))]]

\* np.pad(text, [0, width - len(text)], mode='constant')
np_pad(text, width) ==
    [j \in 1..width |-> IF j <= Len(text) THEN text[j] ELSE 0]

\* The outcome of pad_sequences for one choice ids of the sort.
Packed(seqs, ids) ==
    LET lens == Lens(seqs)
        text_lens == [i \in 1..Len(seqs) |-> lens[ids[i]]]
        max_text_len == text_lens[1]
    IN  [error |-> "none",
         texts |-> [i \in 1..Len(seqs) |-> np_pad(seqs[ids[i]], max_text_len)],
         text_lengths |-> text_lens,
         ids_sorted_decreasing |-> ids]

\* pad_sequences(sequences): the set of its possible outcomes.  With no
\* sequence, text_lengths is empty and text_lengths[0] raises IndexError.
pad_sequences(seqs) ==
    IF Len(seqs) = 0
    THEN { [error |-> "IndexError", texts |-> << >>, text_lengths |-> << >>,
            ids_sorted_decreasing |-> << >>] }
    ELSE { Packed(seqs, ids) : ids \in torch_sort(Lens(seqs)) }

-----------------------------------------------------------------------------
(* model.infer, the engine *)

\* The frame at time step t of row r: a number that names both.
Marker(r, t) == r * (MaxW + 1) + t

\* Rows in which every frame carries the row and the time step it sits at.
MarkerRows(rows, width) ==
    [r \in 1..rows |-> [t \in 1..width |-> Marker(r, t)]]

\* The length vectors the engine reports for rows of the given width: each
\* length in 0..width+1 (width+1 exceeds the row), constant over the rows,
\* rising or falling from row to row.
LengthVectors(rows, width) ==
    { [r \in 1..rows |-> (s + r * d) % (width + 2)] :
        s \in 0..(width + 1), d \in {0, 1, width + 1} }

\* What model.infer may return for a batch of n rows: the batch itself with
\* its own lengths, or marker rows of MaxW frames, one row fewer or more
\* than n included, with a length for every row returned or for every row
\* of the batch.
InferResults(batch, lengths) ==
    { [mels |-> batch, mel_lengths |-> lengths] }
    \cup
    UNION { { [mels |-> MarkerRows(rows, MaxW), mel_lengths |-> lv] :
                lv \in LengthVectors(rows, MaxW) \cup LengthVectors(Len(batch), MaxW) }
            : rows \in { r \in {Len(batch) - 1, Len(batch), Len(batch) + 1} : r >= 0 } }

-----------------------------------------------------------------------------
(* lines 187-190 of main *)

\* mel[:, :length]: a slice stops at the end of the row.
Trim(mel, length) == SubSeq(mel, 1, Min(length, Len(mel)))

\* [mel[:, :length] for mel, length in zip(mels, mel_lengths)]
TrimAll(ms, ls) ==
    [i \in 1..Min(Len(ms), Len(ls)) |-> Trim(ms[i], ls[i])]

\* ids_sorted_decreasing.index(i): the first position holding i.
Index(ids, i) ==
    CHOOSE p \in 1..Len(ids) :
        ids[p] = i /\ \A q \in 1..(p - 1) : ids[q] # i

\* A plausible slip: applying the permutation instead of its inverse.
RecoverOrderForward(ms, ids) ==
    [i \in 1..Len(ids) |-> ms[ids[i]]]

\* [mels[ids_sorted_decreasing.index(i)] for i in range(len(ids_sorted_decreasing))]
RecoverOrder(ms, ids) ==
    [i \in 1..Len(ids) |-> ms[Index(ids, i)]]

\* Line 189 raises IndexError when a position it looks up is not a row.
RecoverFails(ms, ids) ==
    \E i \in 1..Len(ids) : Index(ids, i) > Len(ms)

RECURSIVE Concatenate(_)
\* np.concatenate(mels, axis=-1)
Concatenate(ms) ==
    IF Len(ms) = 0 THEN << >> ELSE Head(ms) \o Concatenate(Tail(ms))

-----------------------------------------------------------------------------
(* main *)

Init ==
    /\ pc = "warmup"
    /\ include_warmup \in BOOLEAN
    /\ cuda \in BOOLEAN
    /\ sequences \in RequestSets
    /\ texts = << >>
    /\ text_lengths = << >>
    /\ ids_sorted_decreasing = << >>
    /\ now = 0
    /\ t0 = 0
    /\ measurements = [k \in {} |-> 0]
    /\ exc = "none"
    /\ mels = << >>
    /\ mel_lengths = << >>
    /\ infer_calls = 0
    /\ err = "none"
    /\ failed_at = 0
    /\ ordered = << >>
    /\ eval_mel = << >>

Raise(e, line) ==
    /\ pc' = "failed"
    /\ err' = e
    /\ failed_at' = line

\* Lines 150-156.  With --include-warmup, line 151 moves a tensor to the
\* GPU, and line 153 then reads the name sequence, which main never binds
\* (the tensor is called sequences): NameError, before the loop of line 154.
Warmup ==
    /\ pc = "warmup"
    /\ IF include_warmup
       THEN IF cuda THEN Raise("NameError", 153) ELSE Raise("CudaError", 151)
       ELSE pc' = "prepare" /\ UNCHANGED <<err, failed_at>>
    /\ UNCHANGED <<include_warmup, cuda, sequences, texts, text_lengths,
                   ids_sorted_decreasing, now, t0, measurements, exc, mels,
                   mel_lengths, infer_calls, ordered, eval_mel>>

\* Lines 158-173: prepare_input_sequence, which calls pad_sequences.
Prepare ==
    /\ pc = "prepare"
    /\ \E r \in pad_sequences(sequences) :
         IF r.error # "none"
         THEN /\ Raise(r.error, 88)
              /\ UNCHANGED <<texts, text_lengths, ids_sorted_decreasing>>
         ELSE /\ pc' = "enter"
              /\ texts' = r.texts
              /\ text_lengths' = r.text_lengths
              /\ ids_sorted_decreasing' = r.ids_sorted_decreasing
              /\ UNCHANGED <<err, failed_at>>
    /\ now' = now + 1
    /\ UNCHANGED <<include_warmup, cuda, sequences, t0, measurements, exc,
                   mels, mel_lengths, infer_calls, ordered, eval_mel>>

\* MeasureTime.__enter__ (line 175): torch.cuda.synchronize() raises on a
\* host without CUDA, and the block is then not entered.
MeasureTimeEnter ==
    /\ pc = "enter"
    /\ IF cuda
       THEN pc' = "infer" /\ t0' = now /\ UNCHANGED <<err, failed_at>>
       ELSE Raise("CudaError", 119) /\ UNCHANGED t0
    /\ UNCHANGED <<include_warmup, cuda, sequences, texts, text_lengths,
                   ids_sorted_decreasing, now, measurements, exc, mels,
                   mel_lengths, infer_calls, ordered, eval_mel>>

\* Line 176: the call of model.infer returns.
InferReturns ==
    /\ pc = "infer"
    /\ infer_calls' = infer_calls + 1
    /\ \E r \in InferResults(texts, text_lengths) :
         /\ mels' = r.mels
         /\ mel_lengths' = r.mel_lengths
    /\ \E d \in 1..MaxTick : now' = now + d
    /\ pc' = "exit"
    /\ UNCHANGED <<include_warmup, cuda, sequences, texts, text_lengths,
                   ids_sorted_decreasing, t0, measurements, exc, err,
                   failed_at, ordered, eval_mel>>

\* Line 176: the call of model.infer raises.
InferRaises ==
    /\ pc = "infer"
    /\ infer_calls' = infer_calls + 1
    /\ exc' = "EngineError"
    /\ \E d \in 1..MaxTick : now' = now + d
    /\ pc' = "exit"
    /\ UNCHANGED <<include_warmup, cuda, sequences, texts, text_lengths,
                   ids_sorted_decreasing, t0, measurements, mels,
                   mel_lengths, err, failed_at, ordered, eval_mel>>

\* A plausible slip: the measurement taken after the call instead of in
\* __exit__, which an exception skips.
MeasureTimeExitInline ==
    /\ pc = "exit"
    /\ IF exc = "none"
       THEN /\ measurements' = [k \in DOMAIN measurements \cup {Key} |-> now - t0]
            /\ pc' = "unpack"
            /\ UNCHANGED <<err, failed_at>>
       ELSE Raise(exc, 176) /\ UNCHANGED measurements
    /\ UNCHANGED <<include_warmup, cuda, sequences, texts, text_lengths,
                   ids_sorted_decreasing, now, t0, exc, mels, mel_lengths,
                   infer_calls, ordered, eval_mel>>

\* MeasureTime.__exit__ (lines 122-124), run by the with statement however
\* the block ends.  It returns None, so an exception in flight goes on to
\* the caller of main.
MeasureTimeExit ==
    /\ pc = "exit"
    /\ measurements' = [k \in DOMAIN measurements \cup {Key} |-> now - t0]
    /\ IF exc = "none"
       THEN pc' = "unpack" /\ UNCHANGED <<err, failed_at>>
       ELSE Raise(exc, 176)
    /\ UNCHANGED <<include_warmup, cuda, sequences, texts, text_lengths,
                   ids_sorted_decreasing, now, t0, exc, mels, mel_lengths,
                   infer_calls, ordered, eval_mel>>

\* Lines 178-190: trim, recover the request order, concatenate and save.
Unpack ==
    /\ pc = "unpack"
    /\ LET trimmed == TrimAll(mels, mel_lengths) IN
         IF RecoverFails(trimmed, ids_sorted_decreasing)
         THEN Raise("IndexError", 189) /\ UNCHANGED <<ordered, eval_mel>>
         ELSE /\ ordered' = RecoverOrder(trimmed, ids_sorted_decreasing)
              /\ eval_mel' = Concatenate(ordered')
              /\ pc' = "done"
              /\ UNCHANGED <<err, failed_at>>
    /\ UNCHANGED <<include_warmup, cuda, sequences, texts, text_lengths,
                   ids_sorted_decreasing, now, t0, measurements, exc, mels,
                   mel_lengths, infer_calls>>

Next ==
    \/ Warmup
    \/ Prepare
    \/ MeasureTimeEnter
    \/ InferReturns
    \/ InferRaises
    \/ MeasureTimeExit
    \/ Unpack

Spec == Init /\ [][Next]_vars

-----------------------------------------------------------------------------
(* Where main() stands, read off pc and the line that raised *)

N == Len(sequences)

\* pad_sequences has returned.
PadReturned ==
    \/ pc \in {"enter", "infer", "exit", "unpack", "done"}
    \/ pc = "failed" /\ failed_at \in {119, 176, 189}

\* The with block of line 175 has been entered and left.
BlockLeft ==
    \/ pc \in {"unpack", "done"}
    \/ pc = "failed" /\ failed_at \in {176, 189}

\* Lines 187-190 have run, to the end or to the line that raised.
UnpackEnded ==
    \/ pc = "done"
    \/ pc = "failed" /\ failed_at = 189

\* The longest request, found without sorting.
LongestLen ==
    CHOOSE m \in {Len(sequences[k]) : k \in 1..N} :
        \A k \in 1..N : Len(sequences[k]) <= m

\* Every request has at least one token.
ValidRequests == \A k \in 1..N : Len(sequences[k]) >= 1

\* The engine returned one row and one length per row of the batch.
Aligned == Len(mels) = N /\ Len(mel_lengths) = N

\* The engine reported, for a row it returned, more frames than the row has.
Overflow ==
    \E r \in 1..Min(Len(mels), Len(mel_lengths)) : mel_lengths[r] > Len(mels[r])

-----------------------------------------------------------------------------
(* The claims *)

\* C1: after pack, one engine call and unpack on an engine output aligned
\* with the sorted batch, the outputs are N in number and the output of
\* request k is the engine's row at the sorted position p that holds k, cut
\* to the length reported for that row (to the whole row when the report
\* exceeds it), frame for frame; with an engine that returns the batch and
\* its lengths unchanged, the outputs are the requests in request order.
C1_OrderedOutputs ==
    (pc = "done" /\ Aligned) =>
        /\ Len(ordered) = N
        /\ \A k \in 1..N :
             \E p \in 1..N :
                /\ ids_sorted_decreasing[p] = k
                /\ Len(ordered[k]) = Min(mel_lengths[p], Len(mels[p]))
                /\ \A t \in 1..Len(ordered[k]) : ordered[k][t] = mels[p][t]
        /\ (mels = texts /\ mel_lengths = text_lengths => ordered = sequences)

\* Three requests sorted by a permutation that is not its own inverse, with
\* rows cut to different lengths.
C1_Witness ==
    /\ pc = "done" /\ Aligned /\ ~Overflow
    /\ N = 3
    /\ ids_sorted_decreasing[ids_sorted_decreasing[1]] # 1
    /\ ids_sorted_decreasing[1] # 1
    /\ mel_lengths[1] # mel_lengths[2]
    /\ \E r \in 1..N : mel_lengths[r] >= 1 /\ mel_lengths[r] < Len(mels[r])

\* C2: the batch pad_sequences returns has N rows of the width of the
\* longest request; row i starts with the tokens of the request the
\* permutation puts at i and holds 0 from there on, and the length vector
\* gives that request's length.  A single request is its own row.
C2_PaddedBatch ==
    PadReturned =>
        /\ Len(texts) = N
        /\ Len(text_lengths) = N
        /\ \A i \in 1..N :
             LET src == sequences[ids_sorted_decreasing[i]] IN
                /\ Len(texts[i]) = LongestLen
                /\ text_lengths[i] = Len(src)
                /\ \A j \in 1..LongestLen :
                     texts[i][j] = IF j <= Len(src) THEN src[j] ELSE 0
        /\ (N = 1 => texts[1] = sequences[1])

\* Three requests of which the longest is not the first, and a padded row.
C2_Witness ==
    /\ PadReturned
    /\ N = 3
    /\ ids_sorted_decreasing[1] # 1
    /\ \E i \in 1..N : text_lengths[i] >= 1 /\ text_lengths[i] < LongestLen

\* C3: the permutation pad_sequences returns holds every original index
\* once, the length vector never rises, and looking up with index() what
\* the permutation gives, or the other way round, is the identity.
C3_Permutation ==
    PadReturned =>
        /\ Len(ids_sorted_decreasing) = N
        /\ \A k \in 1..N :
             Cardinality({p \in 1..N : ids_sorted_decreasing[p] = k}) = 1
        /\ \A i \in 1..(N - 1) : text_lengths[i] >= text_lengths[i + 1]
        /\ \A i \in 1..N :
             /\ Index(ids_sorted_decreasing, ids_sorted_decreasing[i]) = i
             /\ ids_sorted_decreasing[Index(ids_sorted_decreasing, i)] = i

\* Three requests of one length, sorted by a permutation that moves them.
C3_Witness ==
    /\ PadReturned
    /\ N = 3
    /\ \A k \in 1..N : Len(sequences[k]) = Len(sequences[1])
    /\ ids_sorted_decreasing[ids_sorted_decreasing[1]] # 1
    /\ ids_sorted_decreasing[1] # 1

\* C4: the sort is stable: of two requests of one length (of at least one
\* token each, as the packer's precondition asks), the earlier one gets the
\* lower sorted position.
C4_StableSort ==
    (PadReturned /\ ValidRequests) =>
        \A a, b \in 1..N :
            (a < b /\ Len(sequences[a]) = Len(sequences[b])) =>
                Index(ids_sorted_decreasing, a) < Index(ids_sorted_decreasing, b)

\* C5: every run on a request set (here: a non-empty set of non-empty
\* requests, on a host with CUDA) has called model.infer exactly once when
\* it ends.
C5_ExactlyOncePerRun ==
    (pc \in {"done", "failed"} /\ cuda /\ N >= 1 /\ ValidRequests) =>
        infer_calls = 1

\* What does hold of the calls of model.infer: no run makes more than one;
\* a run that got as far as __exit__ made one, any other run none.
InferAtMostOnce ==
    /\ infer_calls <= 1
    /\ (pc = "exit" \/ BlockLeft) => infer_calls = 1
    /\ ~(pc = "exit" \/ BlockLeft) => infer_calls = 0

C7_EmptyBatchError ==
    (N = 0 /\ pc \notin {"warmup", "prepare"} /\ failed_at \notin {151, 153}) =>
        /\ pc = "failed" /\ err = "EmptyBatchError"
        /\ ~PadReturned
        /\ texts = << >> /\ text_lengths = << >> /\ ids_sorted_decreasing = << >>

\* What does hold of packing no request: it ends in the IndexError of
\* line 88 and nothing comes out of it.
EmptyBatchFails ==
    (N = 0 /\ pc \notin {"warmup", "prepare"} /\ failed_at \notin {151, 153}) =>
        /\ pc = "failed" /\ err = "IndexError" /\ failed_at = 88
        /\ ~PadReturned
        /\ texts = << >> /\ text_lengths = << >> /\ ids_sorted_decreasing = << >>

\* C8: pad_sequences never returns a batch with a row of true length 0.
C8_InvalidSequenceError ==
    PadReturned => \A i \in 1..Len(text_lengths) : text_lengths[i] >= 1

\* C9: when the engine reports for a row more frames than the row has
\* (the requests and the row count being as they should), unpacking ends
\* in LengthOverflowError and no output is produced.
C9_LengthOverflowError ==
    (UnpackEnded /\ ValidRequests /\ Aligned /\ Overflow) =>
        /\ pc = "failed" /\ err = "LengthOverflowError"
        /\ ordered = << >> /\ eval_mel = << >>

\* C10: when the engine returns a number of rows, or of lengths, other
\* than the number of requests, unpacking ends in PermutationMismatchError
\* and no output is produced.
C10_PermutationMismatchError ==
    (UnpackEnded /\ ValidRequests /\ ~Aligned) =>
        /\ pc = "failed" /\ err = "PermutationMismatchError"
        /\ ordered = << >> /\ eval_mel = << >>

\* The part of C10 about a surplus of rows, whatever the error is called:
\* unpacking fails.  Lines 187-190 never look at a surplus row and end
\* normally, so this is violated too.
SurplusRowsRejected ==
    (UnpackEnded /\ ValidRequests /\ Len(mels) > N /\ Len(mel_lengths) > N) =>
        pc = "failed"

=============================================================================
